---- MODULE Spec2Model ----
(***************************************************************************)
(* compound_duration (src/src/lib.rs): format_dhms, format_wdhms and       *)
(* format_ns turn a count of seconds / nanoseconds into a compound         *)
(* duration string such as 69d10h40m.                                      *)
(*                                                                         *)
(* Machine integers are 64 and 128 bits wide, wider than the integers of   *)
(* the model checker, so every integer of the program is a numeral: a      *)
(* little-endian sequence of 15-bit limbs without high zero limbs (<<>> is *)
(* 0).  An argument is a type name and the bit pattern the type stores.    *)
(* Strings are sequences of one-character strings.                         *)
(***************************************************************************)
EXTENDS Integers, Sequences, FiniteSets, TLC

VARIABLES T, arg, fn, ret

vars == <<T, arg, fn, ret>>

------------------------------------------------------------------------------
(* Numerals: arithmetic on naturals of any size.                            *)

Limb == 2 ^ 15

Zero == <<>>

RECURSIVE Trim(_)
Trim(s) ==
    IF s = <<>> THEN <<>>
    ELSE IF s[Len(s)] = 0 THEN Trim(SubSeq(s, 1, Len(s) - 1))
    ELSE s

RECURSIVE N(_)
\* the numeral of a small integer
N(n) == IF n = 0 THEN <<>> ELSE <<n % Limb>> \o N(n \div Limb)

One == N(1)

LimbAt(a, i) == IF i <= Len(a) THEN a[i] ELSE 0

RECURSIVE CmpFrom(_, _, _)
CmpFrom(a, b, i) ==
    IF i = 0 THEN 0
    ELSE IF a[i] < b[i] THEN -1
    ELSE IF a[i] > b[i] THEN 1
    ELSE CmpFrom(a, b, i - 1)

\* -1, 0, 1 as a < b, a = b, a > b
Cmp(a, b) ==
    IF Len(a) < Len(b) THEN -1
    ELSE IF Len(a) > Len(b) THEN 1
    ELSE CmpFrom(a, b, Len(a))

Lt(a, b) == Cmp(a, b) < 0
Le(a, b) == Cmp(a, b) <= 0

RECURSIVE AddFrom(_, _, _, _)
AddFrom(a, b, i, carry) ==
    IF i > Len(a) /\ i > Len(b)
    THEN (IF carry = 0 THEN <<>> ELSE <<carry>>)
    ELSE LET s == LimbAt(a, i) + LimbAt(b, i) + carry
         IN  <<s % Limb>> \o AddFrom(a, b, i + 1, s \div Limb)

Add(a, b) == AddFrom(a, b, 1, 0)

RECURSIVE SubFrom(_, _, _, _)
SubFrom(a, b, i, borrow) ==
    IF i > Len(a) THEN <<>>
    ELSE LET s == a[i] - LimbAt(b, i) - borrow
         IN  IF s < 0 THEN <<s + Limb>> \o SubFrom(a, b, i + 1, 1)
             ELSE <<s>> \o SubFrom(a, b, i + 1, 0)

\* a - b where b <= a
Sub(a, b) == Trim(SubFrom(a, b, 1, 0))

\* bit i of a, bit 0 the lowest
BitAt(a, i) == (LimbAt(a, (i \div 15) + 1) \div (2 ^ (i % 15))) % 2

RECURSIVE Pow2(_)
Pow2(k) == IF k >= 15 THEN <<0>> \o Pow2(k - 15) ELSE <<2 ^ k>>

RECURSIVE MulSmallFrom(_, _, _, _)
MulSmallFrom(a, k, i, carry) ==
    IF i > Len(a) THEN (IF carry = 0 THEN <<>> ELSE <<carry>>)
    ELSE LET s == a[i] * k + carry
         IN  <<s % Limb>> \o MulSmallFrom(a, k, i + 1, s \div Limb)

\* a * k for one limb k
MulSmall(a, k) == IF k = 0 THEN Zero ELSE MulSmallFrom(a, k, 1, 0)

\* a * Limb
ShiftLimb(a) == IF a = Zero THEN Zero ELSE <<0>> \o a

RECURSIVE MulFrom(_, _, _)
MulFrom(a, b, j) ==
    IF j > Len(b) THEN Zero
    ELSE Add(MulSmall(a, b[j]), ShiftLimb(MulFrom(a, b, j + 1)))

Mul(a, b) == MulFrom(a, b, 1)

RECURSIVE QuotLimb(_, _, _, _)
\* the largest q in lo..hi with q * d <= r, where lo * d <= r
QuotLimb(r, d, lo, hi) ==
    IF lo = hi THEN lo
    ELSE LET mid == (lo + hi + 1) \div 2
         IN  IF Le(MulSmall(d, mid), r) THEN QuotLimb(r, d, mid, hi)
             ELSE QuotLimb(r, d, lo, mid - 1)

RECURSIVE DivFrom(_, _, _)
\* long division of the limbs i.. of a by d
DivFrom(a, d, i) ==
    IF i > Len(a) THEN [q |-> Zero, r |-> Zero]
    ELSE LET p == DivFrom(a, d, i + 1)
             r2 == Trim(<<a[i]>> \o p.r)
             qd == IF Lt(r2, d) THEN 0 ELSE QuotLimb(r2, d, 1, Limb - 1)
         IN  [q |-> Trim(<<qd>> \o p.q), r |-> Sub(r2, MulSmall(d, qd))]

\* quotient and remainder of a by d, d > 0
DivMod(a, d) == DivFrom(a, d, 1)

Div(a, d) == DivMod(a, d).q
Mod(a, d) == DivMod(a, d).r

------------------------------------------------------------------------------
(* The integer types an argument can have, and their conversions.           *)

\* usize of a 32-bit target
UsizeBits32 == 2 ^ 5
UsizeBits == 64

Types == {"u8", "u16", "u32", "u64", "usize", "u128",
          "i8", "i16", "i32", "i64", "isize", "i128"}

Bits(t) ==
    CASE t \in {"u8", "i8"} -> 8
      [] t \in {"u16", "i16"} -> 16
      [] t \in {"u32", "i32"} -> 32
      [] t \in {"u64", "i64"} -> 64
      [] t \in {"usize", "isize"} -> UsizeBits
      [] t \in {"u128", "i128"} -> 128

Signed(t) == t \in {"i8", "i16", "i32", "i64", "isize", "i128"}

\* std::mem::size_of::<T>(), in bytes
SizeOf(t) == Bits(t) \div 8

\* usize::MAX
USIZE_MAX == Sub(Pow2(UsizeBits), One)

\* T::MAX
MaxOf(t) == Sub(Pow2(IF Signed(t) THEN Bits(t) - 1 ELSE Bits(t)), One)

\* the stored bit pattern raw of a T is a negative value
IsNegative(t, raw) == Signed(t) /\ BitAt(raw, Bits(t) - 1) = 1

Ok(v) == [ok |-> TRUE, val |-> v]
Err == [ok |-> FALSE, val |-> Zero]

\* the cast `as usize`: the low bits, never an error
TryIntoUsizeAsCast(t, raw) == Ok(Mod(raw, Pow2(UsizeBits)))

\* <T as TryInto<usize>>::try_into: Err when the value is out of usize's range
TryIntoUsize(t, raw) ==
    IF IsNegative(t, raw) THEN Err
    ELSE IF Le(raw, USIZE_MAX) THEN Ok(raw)
    ELSE Err

\* <T as TryFrom<usize>>::try_from: Err when u is above T::MAX
TryFromUsize(t, u) == IF Le(u, MaxOf(t)) THEN Ok(u) ELSE Err

RECURSIVE AndInt(_, _)
AndInt(x, y) ==
    IF x = 0 \/ y = 0 THEN 0
    ELSE (x % 2) * (y % 2) + 2 * AndInt(x \div 2, y \div 2)

\* the smaller of a and b: saturation at the mask
BitAndSaturate(a, b) == IF Le(a, b) THEN a ELSE b

\* a & b on bit patterns
BitAnd(a, b) ==
    Trim([i \in 1..(IF Len(a) < Len(b) THEN Len(a) ELSE Len(b)) |-> AndInt(a[i], b[i])])

\* the branch condition of the normalisation
NotWiderStrict(t) == SizeOf(t) < SizeOf("usize")
NotWider(t) == SizeOf(t) <= SizeOf("usize")

\* let seconds: usize = if size_of::<T>() <= size_of::<usize>() { .. } else { .. };
\* ok = FALSE is a panic of one of the unwrap() calls
ToUsize(t, raw) ==
    IF NotWider(t)
    THEN TryIntoUsize(t, raw)
    ELSE LET mask == TryFromUsize(t, USIZE_MAX)
         IN  IF ~mask.ok THEN Err
             ELSE TryIntoUsize(t, BitAnd(raw, mask.val))

------------------------------------------------------------------------------
(* usize arithmetic and formatting.                                         *)

NS == 1
US == 1000
MS == 1000000
NANOS == 1000000000
SECOND == 1
MINUTE == 60
\* an hour of 360 seconds
HourTypo == 6 * 60
HOUR == 3600
DAY == 86400
\* a week of eight days
WeekTypo == 8 * 86400
WEEK == 604800

\* a * b in usize: the low UsizeBits bits, and whether the product left the width
\* (rustc rejects such a constant product, a debug build panics, a release build wraps)
UMul(a, b) ==
    LET p == Mul(a, b)
    IN  [val |-> Mod(p, Pow2(UsizeBits)), ovf |-> ~Le(p, USIZE_MAX)]

\* a / b and a % b in usize, b # 0
UDiv(a, b) == Div(a, b)
\* the remainder not taken
URemKept(a, b) == a
URem(a, b) == Mod(a, b)

Digit(k) == <<"0", "1", "2", "3", "4", "5", "6", "7", "8", "9">>[k + 1]

RECURSIVE Digits(_)
Digits(n) ==
    IF n = Zero THEN <<>>
    ELSE LET qr == DivMod(n, N(10))
         IN  Append(Digits(qr.q), Digit(IF qr.r = Zero THEN 0 ELSE qr.r[1]))

\* format!("{n:02}"): padded to two digits
DisplayPadded(n) ==
    IF n = Zero THEN <<"0", "0">>
    ELSE IF Lt(n, N(10)) THEN <<"0">> \o Digits(n)
    ELSE Digits(n)

\* format!("{n}") of a usize
Display(n) == IF n = Zero THEN <<"0">> ELSE Digits(n)

\* push_str(format!("{count}label")) when count != 0
PushTermAlways(buf, count, label) == buf \o Display(count) \o label
PushTerm(buf, count, label) ==
    IF count # Zero THEN buf \o Display(count) \o label ELSE buf

NotCalled == [status |-> "none", out |-> <<>>, steps |-> <<>>]
Panicked == [status |-> "panicked", out |-> <<>>, steps |-> <<>>]
Returned(s, st) == [status |-> "returned", out |-> s, steps |-> st]

\* one divide / remainder pair of a function body, as it was computed
Step(size, ovf, count, rem) ==
    [size |-> size, ovf |-> ovf, count |-> count, rem |-> rem]

------------------------------------------------------------------------------
(* The three functions.                                                     *)

\* format_dhms past the zero check
dhms_terms(seconds) ==
    LET sec1 == URem(seconds, N(DAY))
        ds == UDiv(seconds, N(DAY))
        cd1 == PushTerm(<<>>, ds, <<"d">>)
        hs == UDiv(sec1, N(HOUR))
        sec2 == URem(sec1, N(HOUR))
        cd2 == PushTerm(cd1, hs, <<"h">>)
        ms == UDiv(sec2, N(MINUTE))
        sec3 == URem(sec2, N(MINUTE))
        cd3 == PushTerm(cd2, ms, <<"m">>)
        cd4 == PushTerm(cd3, sec3, <<"s">>)
    IN  Returned(cd4,
                 << Step(N(DAY), FALSE, ds, sec1),
                    Step(N(HOUR), FALSE, hs, sec2),
                    Step(N(MINUTE), FALSE, ms, sec3) >>)

\* format_dhms without its zero check
format_dhms_no_zero_check(t, raw) ==
    LET n == ToUsize(t, raw)
    IN  IF ~n.ok THEN Panicked ELSE dhms_terms(n.val)

format_dhms(t, raw) ==
    LET n == ToUsize(t, raw)
    IN  IF ~n.ok THEN Panicked
        ELSE IF n.val = Zero THEN Returned(<<"0", "s">>, <<>>)
        ELSE dhms_terms(n.val)

\* format_wdhms past the zero check
wdhms_terms(seconds) ==
    LET sec1 == URem(seconds, N(WEEK))
        ws == UDiv(seconds, N(WEEK))
        cd1 == PushTerm(<<>>, ws, <<"w">>)
        ds == UDiv(sec1, N(DAY))
        sec2 == URem(sec1, N(DAY))
        cd2 == PushTerm(cd1, ds, <<"d">>)
        hs == UDiv(sec2, N(HOUR))
        sec3 == URem(sec2, N(HOUR))
        cd3 == PushTerm(cd2, hs, <<"h">>)
        ms == UDiv(sec3, N(MINUTE))
        sec4 == URem(sec3, N(MINUTE))
        cd4 == PushTerm(cd3, ms, <<"m">>)
        cd5 == PushTerm(cd4, sec4, <<"s">>)
    IN  Returned(cd5,
                 << Step(N(WEEK), FALSE, ws, sec1),
                    Step(N(DAY), FALSE, ds, sec2),
                    Step(N(HOUR), FALSE, hs, sec3),
                    Step(N(MINUTE), FALSE, ms, sec4) >>)

format_wdhms(t, raw) ==
    LET n == ToUsize(t, raw)
    IN  IF ~n.ok THEN Panicked
        ELSE IF n.val = Zero THEN Returned(<<"0", "s">>, <<>>)
        ELSE wdhms_terms(n.val)

\* format_ns past the zero check; a zero divisor is a panic
ns_terms(nanos) ==
    LET day_ns == UMul(N(DAY), N(NANOS))
        hour_ns == UMul(N(HOUR), N(NANOS))
        minute_ns == UMul(N(MINUTE), N(NANOS))
        second_ns == UMul(N(SECOND), N(NANOS))
    IN  IF Zero \in {day_ns.val, hour_ns.val, minute_ns.val, second_ns.val}
        THEN Panicked
        ELSE LET ns1 == URem(nanos, day_ns.val)
                 d_ns == UDiv(nanos, day_ns.val)
                 cd1 == PushTerm(<<>>, d_ns, <<"d">>)
                 h_ns == UDiv(ns1, hour_ns.val)
                 ns2 == URem(ns1, hour_ns.val)
                 cd2 == PushTerm(cd1, h_ns, <<"h">>)
                 minutes_ns == UDiv(ns2, minute_ns.val)
                 ns3 == URem(ns2, minute_ns.val)
                 cd3 == PushTerm(cd2, minutes_ns, <<"m">>)
                 sec_ns == UDiv(ns3, second_ns.val)
                 ns4 == URem(ns3, second_ns.val)
                 cd4 == PushTerm(cd3, sec_ns, <<"s">>)
                 ms_ns == UDiv(ns4, N(MS))
                 ns5 == URem(ns4, N(MS))
                 cd5 == PushTerm(cd4, ms_ns, <<"m", "s">>)
                 micro_ns == UDiv(ns5, N(US))
                 ns6 == URem(ns5, N(US))
                 cd6 == PushTerm(cd5, micro_ns, <<"µ", "s">>)
                 cd7 == PushTerm(cd6, ns6, <<"n", "s">>)
             IN  Returned(cd7,
                          << Step(day_ns.val, day_ns.ovf, d_ns, ns1),
                             Step(hour_ns.val, hour_ns.ovf, h_ns, ns2),
                             Step(minute_ns.val, minute_ns.ovf, minutes_ns, ns3),
                             Step(second_ns.val, second_ns.ovf, sec_ns, ns4),
                             Step(N(MS), FALSE, ms_ns, ns5),
                             Step(N(US), FALSE, micro_ns, ns6) >>)

format_ns(t, raw) ==
    LET n == ToUsize(t, raw)
    IN  IF ~n.ok THEN Panicked
        ELSE IF n.val = Zero THEN Returned(<<"0", "n", "s">>, <<>>)
        ELSE ns_terms(n.val)

Apply(f, t, raw) ==
    CASE f = "format_dhms" -> format_dhms(t, raw)
      [] f = "format_wdhms" -> format_wdhms(t, raw)
      [] f = "format_ns" -> format_ns(t, raw)

------------------------------------------------------------------------------
(* The arguments the functions are called with.                             *)

MaxDelta == 1

Ten9 == N(NANOS)

\* the values around which arguments are drawn: unit sizes, the values of the
\* tests, and the limits of the integer types
Bases ==
    { Zero, N(30), N(60), N(256), N(3600), N(7259), N(86400), N(604800),
      N(6000000), N(1000), N(1000000), Ten9,
      Add(Mul(N(3), Ten9), N(129723)),
      Mul(N(60), Ten9), Mul(N(3600), Ten9), Mul(N(86400), Ten9),
      Add(Mul(N(100000000), Ten9), N(10100001)),
      Pow2(32), Pow2(63), Pow2(64), Add(Pow2(64), N(61)),
      Add(Pow2(64), Mul(N(90061), Ten9)), Pow2(127), Pow2(128) }

\* magnitudes of the negative values
NegBases == { One, N(61), N(128), Pow2(31), Pow2(63), Pow2(64), Pow2(127) }

Around(bs) ==
    UNION { {Add(b, N(d)) : d \in 0..MaxDelta}
            \cup {Sub(b, N(d)) : d \in {e \in 0..MaxDelta : Le(N(e), b)}} : b \in bs }

\* a value is a sign and a magnitude
Values ==
    {[neg |-> FALSE, mag |-> m] : m \in Around(Bases)}
    \cup {[neg |-> TRUE, mag |-> m] : m \in Around(NegBases) \ {Zero}}

\* T can hold v
Fits(t, v) ==
    IF v.neg THEN Signed(t) /\ Le(v.mag, Pow2(Bits(t) - 1))
    ELSE Le(v.mag, MaxOf(t))

\* the bit pattern of v as a T (two's complement)
Encode(t, v) == IF v.neg THEN Sub(Pow2(Bits(t)), v.mag) ELSE v.mag

\* the value a T with bit pattern raw holds
Decode(t, raw) ==
    IF IsNegative(t, raw) THEN [neg |-> TRUE, mag |-> Sub(Pow2(Bits(t)), raw)]
    ELSE [neg |-> FALSE, mag |-> raw]

Args(t) == {Encode(t, v) : v \in {w \in Values : Fits(t, w)}}

------------------------------------------------------------------------------
(* A call: an argument is chosen, then one of the functions is applied.     *)

Init ==
    /\ T \in Types
    /\ arg \in Args(T)
    /\ fn = "none"
    /\ ret = NotCalled

CallFormatDhms ==
    /\ fn = "none"
    /\ fn' = "format_dhms"
    /\ ret' = format_dhms(T, arg)
    /\ UNCHANGED <<T, arg>>

CallFormatWdhms ==
    /\ fn = "none"
    /\ fn' = "format_wdhms"
    /\ ret' = format_wdhms(T, arg)
    /\ UNCHANGED <<T, arg>>

CallFormatNs ==
    /\ fn = "none"
    /\ fn' = "format_ns"
    /\ ret' = format_ns(T, arg)
    /\ UNCHANGED <<T, arg>>

Next == CallFormatDhms \/ CallFormatWdhms \/ CallFormatNs

Spec == Init /\ [][Next]_vars

------------------------------------------------------------------------------
(* What the properties below speak of: the value of the argument, and the   *)
(* terms read back from a returned string.                                  *)

Called == fn # "none"
HasReturned == Called /\ ret.status = "returned"

\* the argument as a sign and a magnitude
Value == Decode(T, arg)
NonNegative == ~Value.neg

\* the argument's value modulo 2^64
Low64 ==
    IF Value.neg
    THEN Mod(Sub(Pow2(64), Mod(Value.mag, Pow2(64))), Pow2(64))
    ELSE Mod(Value.mag, Pow2(64))

Max64 == Sub(Pow2(64), One)

IsDigit(c) == c \in {"0", "1", "2", "3", "4", "5", "6", "7", "8", "9"}

DigitValue(c) ==
    CASE c = "0" -> 0 [] c = "1" -> 1 [] c = "2" -> 2 [] c = "3" -> 3
      [] c = "4" -> 4 [] c = "5" -> 5 [] c = "6" -> 6 [] c = "7" -> 7
      [] c = "8" -> 8 [] c = "9" -> 9

\* the end of the run of digits (digits = TRUE) or of other characters that starts at i
RunEnd(s, i, digits) ==
    CHOOSE x \in i..(Len(s) + 1) :
        /\ (x = Len(s) + 1 \/ IsDigit(s[x]) # digits)
        /\ \A y \in i..(x - 1) : IsDigit(s[y]) = digits

RECURSIVE NumeralOf(_, _)
\* the number the first n decimal digits of ds write
NumeralOf(ds, n) ==
    IF n = 0 THEN Zero
    ELSE Add(MulSmall(NumeralOf(ds, n - 1), 10), N(DigitValue(ds[n])))

RECURSIVE TermsFrom(_, _)
TermsFrom(s, i) ==
    IF i > Len(s) THEN <<>>
    ELSE LET j == RunEnd(s, i, TRUE)
             k == RunEnd(s, j, FALSE)
             ds == SubSeq(s, i, j - 1)
         IN  << [digits |-> ds, coef |-> NumeralOf(ds, Len(ds)),
                 label |-> SubSeq(s, j, k - 1)] >> \o TermsFrom(s, k)

\* a string cut into terms: a run of digits, then the characters up to the next digit
Terms(s) == TermsFrom(s, 1)

Entry(l, n) == [label |-> l, size |-> n]

SecondsLadder ==
    << Entry(<<"d">>, N(86400)), Entry(<<"h">>, N(3600)),
       Entry(<<"m">>, N(60)), Entry(<<"s">>, N(1)) >>

WeeksLadder == <<Entry(<<"w">>, N(604800))>> \o SecondsLadder

NanosLadder ==
    << Entry(<<"d">>, Mul(N(86400), N(1000000000))),
       Entry(<<"h">>, Mul(N(3600), N(1000000000))),
       Entry(<<"m">>, Mul(N(60), N(1000000000))),
       Entry(<<"s">>, N(1000000000)),
       Entry(<<"m", "s">>, N(1000000)),
       Entry(<<"µ", "s">>, N(1000)),
       Entry(<<"n", "s">>, N(1)) >>

Ladder(f) ==
    CASE f = "format_dhms" -> SecondsLadder
      [] f = "format_wdhms" -> WeeksLadder
      [] f = "format_ns" -> NanosLadder

ZeroString(f) == IF f = "format_ns" THEN <<"0", "n", "s">> ELSE <<"0", "s">>

Labels(f) == {Ladder(f)[i].label : i \in 1..Len(Ladder(f))}

\* the place of a label in the ladder of f, 1 the largest unit
Rank(f, l) == CHOOSE i \in 1..Len(Ladder(f)) : Ladder(f)[i].label = l

CoefLabels(terms) ==
    [i \in 1..Len(terms) |-> [coef |-> terms[i].coef, label |-> terms[i].label]]

\* a coefficient written without leading zeros
PlainDecimal(term) ==
    /\ term.digits # <<>>
    /\ term.digits[1] # "0" \/ term.digits = <<"0">>

RECURSIVE Walk(_, _, _)
\* the reference algorithm: the non-zero counts of the ladder, largest unit first
Walk(ladder, i, rem) ==
    IF i > Len(ladder) THEN <<>>
    ELSE LET qr == DivMod(rem, ladder[i].size)
         IN  (IF qr.q # Zero THEN <<[coef |-> qr.q, label |-> ladder[i].label]>>
              ELSE <<>>) \o Walk(ladder, i + 1, qr.r)

RECURSIVE TermSum(_, _, _)
\* the sum of coefficient * unit size over the first n terms
TermSum(f, terms, n) ==
    IF n = 0 THEN Zero
    ELSE Add(TermSum(f, terms, n - 1),
             Mul(terms[n].coef, Ladder(f)[Rank(f, terms[n].label)].size))

\* the coefficient of label l among the terms, 0 when there is none
Coef(terms, l) ==
    IF \E i \in 1..Len(terms) : terms[i].label = l
    THEN terms[CHOOSE i \in 1..Len(terms) : terms[i].label = l].coef
    ELSE Zero

RECURSIVE StepSum(_, _, _)
\* the sum of count * unit size over the first n divide steps
StepSum(f, steps, n) ==
    IF n = 0 THEN Zero
    ELSE Add(StepSum(f, steps, n - 1), Mul(steps[n].count, Ladder(f)[n].size))

\* the returned string is the reference algorithm's for the value n
MatchesReference(n) ==
    /\ ret.status = "returned"
    /\ CoefLabels(Terms(ret.out)) = Walk(Ladder(fn), 1, n)
    /\ \A i \in 1..Len(Terms(ret.out)) : PlainDecimal(Terms(ret.out)[i])

------------------------------------------------------------------------------
(* The properties.                                                          *)

\* the argument is the non-negative value v
IsValue(v) == NonNegative /\ Value.mag = v

C1_Examples ==
    /\ (fn = "format_dhms" /\ IsValue(N(6000000))) => ret.out = <<"6", "9", "d", "1", "0", "h", "4", "0", "m">>
    /\ (fn = "format_wdhms" /\ IsValue(N(6000000))) => ret.out = <<"9", "w", "6", "d", "1", "0", "h", "4", "0", "m">>
    /\ (fn = "format_dhms" /\ IsValue(N(7259))) => ret.out = <<"2", "h", "5", "9", "s">>
    /\ (fn = "format_ns" /\ IsValue(Add(Mul(N(3), N(1000000000)), N(129723))))
           => ret.out = <<"3", "s", "1", "2", "9", "µ", "s", "7", "2", "3", "n", "s">>

\* C1 as stated: for every non-zero input value the returned string is the one
\* the reference algorithm (walk the ladder from the largest unit, count :=
\* remainder / size, remainder := remainder % size, append each non-zero count
\* in plain decimal followed by its label, no separator) produces for that value.
C1_AsStated ==
    (Called /\ NonNegative /\ Value.mag # Zero) => MatchesReference(Value.mag)

\* C1, amended: for every non-negative argument whose value modulo 2^64 is not
\* zero, the returned string is the one the reference algorithm produces for the
\* value modulo 2^64 (the value itself when the type is not wider than 64 bits).
C1_ReferenceOnLow64 ==
    /\ (Called /\ NonNegative /\ Low64 # Zero) => MatchesReference(Low64)
    /\ Called => C1_Examples

C1_Witness ==
    /\ fn = "format_ns"
    /\ IsValue(Add(Mul(N(3), N(1000000000)), N(129723)))
    /\ ret.out = <<"3", "s", "1", "2", "9", "µ", "s", "7", "2", "3", "n", "s">>

\* the terms of the returned string name units of the function's ladder and
\* their coefficient * size sum to n
SumsTo(n) ==
    /\ ret.status = "returned"
    /\ \A i \in 1..Len(Terms(ret.out)) : Terms(ret.out)[i].label \in Labels(fn)
    /\ TermSum(fn, Terms(ret.out), Len(Terms(ret.out))) = n

\* C2 as stated: for every input value v the sum over the emitted terms of
\* coefficient * unit size equals v exactly.
C2_AsStated == (Called /\ NonNegative) => SumsTo(Value.mag)

\* C2, amended: for every non-negative argument the sum over the emitted terms
\* of coefficient * unit size equals the value modulo 2^64, which is the value
\* itself whenever it is below 2^64.
C2_ExactOnLow64 ==
    /\ (Called /\ NonNegative) => SumsTo(Low64)
    /\ (Called /\ NonNegative /\ Le(Value.mag, Max64)) => SumsTo(Value.mag)

C2_Witness ==
    /\ fn = "format_wdhms"
    /\ IsValue(Sub(Pow2(32), One))
    /\ ret.out = <<"7", "1", "0", "1", "w", "3", "d", "6", "h", "2", "8", "m", "1", "5", "s">>

\* the returned string is the zero-string when n is 0 and otherwise is neither
\* empty nor the zero-string and has no term with coefficient 0
ZeroStringIffZero(n) ==
    /\ ret.status = "returned"
    /\ n = Zero => ret.out = ZeroString(fn)
    /\ n # Zero => /\ ret.out # <<>>
                   /\ ret.out # ZeroString(fn)
                   /\ \A i \in 1..Len(Terms(ret.out)) : Terms(ret.out)[i].coef # Zero

\* C3 as stated: input 0 gives "0s" (format_dhms, format_wdhms) or "0ns"
\* (format_ns), and every non-zero input gives a non-empty string that is not
\* the zero-string and has no term with coefficient 0.
C3_AsStated == (Called /\ NonNegative) => ZeroStringIffZero(Value.mag)

\* C3, amended: the zero-string is returned exactly when the argument's value
\* modulo 2^64 is 0, so for input 0 and also for a non-zero multiple of 2^64 of
\* a type wider than 64 bits; every other non-negative argument gives a
\* non-empty string that is not the zero-string and has no 0 coefficient.
C3_ZeroOnLow64 ==
    /\ (Called /\ NonNegative) => ZeroStringIffZero(Low64)
    /\ (Called /\ IsValue(Zero)) => ret.out = ZeroString(fn)

C3_Witness ==
    /\ fn = "format_ns"
    /\ IsValue(Zero)
    /\ ret.out = <<"0", "n", "s">>

\* the labels are units of the ladder in strictly descending magnitude (so each
\* at most once)
Descending ==
    /\ ret.status = "returned"
    /\ \A i \in 1..Len(Terms(ret.out)) : Terms(ret.out)[i].label \in Labels(fn)
    /\ \A i \in 1..(Len(Terms(ret.out)) - 1) :
           Rank(fn, Terms(ret.out)[i].label) < Rank(fn, Terms(ret.out)[i + 1].label)

NoZeroCoefficient ==
    \A i \in 1..Len(Terms(ret.out)) : Terms(ret.out)[i].coef # Zero

\* C4 as stated: for every input the labels appear in strictly descending order
\* of magnitude, each at most once, and for a non-zero input no emitted term
\* has coefficient 0.
C4_AsStated ==
    (Called /\ NonNegative) =>
        (Descending /\ (Value.mag # Zero => NoZeroCoefficient))

\* C4, amended: for every non-negative argument the labels appear in strictly
\* descending order of magnitude, each at most once, and when the value modulo
\* 2^64 is not zero no emitted term has coefficient 0.
C4_DescendingNoZero ==
    (Called /\ NonNegative) =>
        (Descending /\ (Low64 # Zero => NoZeroCoefficient))

C4_Witness ==
    /\ fn = "format_ns"
    /\ IsValue(N(1000001))
    /\ ret.out = <<"1", "m", "s", "1", "n", "s">>

\* the largest coefficient the unit l may have under f; the top unit has none
Cap(f, l) ==
    CASE l = <<"h">> -> N(23)
      [] l \in {<<"m">>, <<"s">>} -> N(59)
      [] l = <<"d">> -> N(6)
      [] l \in {<<"m", "s">>, <<"µ", "s">>, <<"n", "s">>} -> N(999)

\* C5: every emitted coefficient other than that of the function's top unit is
\* below the ratio to the next larger unit: hours <= 23, minutes <= 59,
\* seconds <= 59, days <= 6 under format_wdhms, ms, µs and ns <= 999; the top
\* unit (days, or weeks under format_wdhms) is unbounded.
C5_BucketRanges ==
    HasReturned =>
        \A i \in 1..Len(Terms(ret.out)) :
            LET term == Terms(ret.out)[i]
            IN  /\ term.label \in Labels(fn)
                /\ Rank(fn, term.label) # 1 => Le(term.coef, Cap(fn, term.label))

C5_Witness ==
    /\ fn = "format_dhms"
    /\ IsValue(N(604800))
    /\ ret.out = <<"7", "d">>

\* C6: every non-negative argument of every accepted type makes each function
\* return a string: no unwrap() of the normalisation and no division panics.
C6_Total == (Called /\ NonNegative) => ret.status = "returned"

C6_Witness ==
    /\ fn = "format_ns"
    /\ T = "i64"
    /\ IsValue(Sub(Pow2(63), One))
    /\ ret.status = "returned"

\* C7: for a type wider than 64 bits the result is the result for the value
\* modulo 2^64 (2^64 + 61 formats as "1m1s", 2^64 as the zero-string); for a
\* type not wider than 64 bits the value is used unchanged.
C7_TruncatingNarrowing ==
    /\ (Called /\ Bits(T) > 64) => ret = Apply(fn, "usize", Low64)
    /\ (Called /\ Bits(T) <= 64 /\ NonNegative) => ret = Apply(fn, "usize", Value.mag)
    /\ (Called /\ fn # "format_ns" /\ IsValue(Add(Pow2(64), N(61))))
           => ret.out = <<"1", "m", "1", "s">>
    /\ (Called /\ IsValue(Pow2(64))) => ret.out = ZeroString(fn)

C7_Witness ==
    /\ fn = "format_dhms"
    /\ T = "u128"
    /\ IsValue(Add(Pow2(64), N(61)))
    /\ ret.out = <<"1", "m", "1", "s">>

\* C8: for every value up to 2^64 - 1 no intermediate quantity overflows: the
\* divisors (DAY * NANOS and the other products among them) are the unit sizes
\* themselves, every quotient and remainder is at most the input, and the
\* counts times the unit sizes plus the last remainder give the input back.
C8_NoOverflow ==
    (Called /\ NonNegative /\ Le(Value.mag, Max64)) =>
        /\ ret.status = "returned"
        /\ \A i \in 1..Len(ret.steps) :
               /\ ~ret.steps[i].ovf
               /\ ret.steps[i].size = Ladder(fn)[i].size
               /\ Le(ret.steps[i].size, Max64)
               /\ Le(ret.steps[i].count, Value.mag)
               /\ Le(ret.steps[i].rem, Value.mag)
        /\ Value.mag # Zero =>
               /\ Len(ret.steps) = Len(Ladder(fn)) - 1
               /\ Add(StepSum(fn, ret.steps, Len(ret.steps)),
                      ret.steps[Len(ret.steps)].rem) = Value.mag

C8_Witness ==
    /\ fn = "format_ns"
    /\ IsValue(Max64)
    /\ ret.out = <<"2", "1", "3", "5", "0", "3", "d", "2", "3", "h", "3", "4", "m", "3", "3", "s", "7", "0", "9", "m", "s", "5", "5", "1", "µ", "s", "6", "1", "5", "n", "s">>

\* C9: the hour, minute and second terms of format_wdhms(v) are those of
\* format_dhms(v), the day count of format_dhms(v) is 7 * W + d for the week
\* count W and the day count d <= 6 of format_wdhms(v), and below 604800 the two
\* functions return the same string.
C9_WeeksAndDays ==
    (HasReturned /\ fn \in {"format_dhms", "format_wdhms"}) =>
        LET dhms == IF fn = "format_dhms" THEN ret ELSE format_dhms(T, arg)
            wdhms == IF fn = "format_wdhms" THEN ret ELSE format_wdhms(T, arg)
            a == Terms(dhms.out)
            b == Terms(wdhms.out)
        IN  /\ dhms.status = "returned" /\ wdhms.status = "returned"
            /\ \A l \in {<<"h">>, <<"m">>, <<"s">>} :
                   /\ Coef(a, l) = Coef(b, l)
                   /\ (\E i \in 1..Len(a) : a[i].label = l)
                          <=> (\E i \in 1..Len(b) : b[i].label = l)
            /\ Coef(a, <<"d">>) = Add(MulSmall(Coef(b, <<"w">>), 7), Coef(b, <<"d">>))
            /\ Le(Coef(b, <<"d">>), N(6))
            /\ Coef(a, <<"w">>) = Zero
            /\ (NonNegative /\ Lt(Value.mag, N(604800))) => dhms.out = wdhms.out

C9_Witness ==
    /\ fn = "format_wdhms"
    /\ IsValue(N(6000000))
    /\ ret.out = <<"9", "w", "6", "d", "1", "0", "h", "4", "0", "m">>
    /\ format_dhms(T, arg).out = <<"6", "9", "d", "1", "0", "h", "4", "0", "m">>

\* C10: a negative argument of a signed type not wider than 64 bits makes each
\* function panic; a negative i128 never panics and is formatted as its low 64
\* bits, so -1 like 2^64 - 1.
C10_Negative ==
    /\ (Called /\ Value.neg /\ Bits(T) <= 64) => ret.status = "panicked"
    /\ (Called /\ Value.neg /\ Bits(T) > 64) =>
           /\ ret.status = "returned"
           /\ ret = Apply(fn, "u64", Low64)
    /\ (Called /\ Value.neg /\ Value.mag = One /\ T = "i128") =>
           ret = Apply(fn, "u64", Max64)

C10_Witness ==
    /\ fn = "format_dhms"
    /\ T = "i32"
    /\ Value.neg /\ Value.mag = One
    /\ ret.status = "panicked"

====
